---------------------------- MODULE Spec2Model ----------------------------
(***************************************************************************)
(* Model of the Cameo webhook listener (src/main.py): the POST /webhook    *)
(* handler that normalises an inbound event, fans it out to the three      *)
(* configured relay URLs with asyncio.gather and aggregates the outcomes;  *)
(* the GET /webhook verification digest and the GET /webhook/status report.*)
(***************************************************************************)
EXTENDS Integers, Sequences, FiniteSets, TLC

(***************************************************************************)
(* Bounds of the model.                                                    *)
(***************************************************************************)
\* RELAY_TIMEOUT (main.py:24) is read from the environment; the model counts
\* it in abstract clock ticks.
RELAY_TIMEOUT == 1

\* Longest inbound body, in bytes.
MaxBodyLen == 1

(***************************************************************************)
(* Configuration (main.py:20-27).                                          *)
(***************************************************************************)
\* len(RELAY_URLS)
N == 3

Dests == 1..N

PlaceholderUrl(k) ==
    CASE k = 1 -> "https://your-destination-url-1.com/webhook"
      [] k = 2 -> "https://your-destination-url-2.com/webhook"
      [] OTHER -> "https://your-destination-url-3.com/webhook"

\* The default of WEBHOOK_SECRET_TOKEN (main.py:20).
SecretPlaceholder == "your-secret-token-here"

\* Configurations the process may start with: os.getenv gives RELAY_URL_k its
\* placeholder when unset, else the override, which may be the empty string.
Configs ==
    {<<PlaceholderUrl(1), "https://relay-2.example/hook", PlaceholderUrl(3)>>,
     <<"https://relay-1.example/hook", PlaceholderUrl(2), "">>}

(***************************************************************************)
(* The inbound request: its headers and its body bytes.                    *)
(***************************************************************************)
\* Bytes an inbound body is made of: '1', '{' and 0xFF (a byte that occurs
\* in no UTF-8 text).
Bytes == {49, 123, 255}

Bodies == UNION {[1..n -> Bytes] : n \in 0..MaxBodyLen}

\* request.headers as a dict: some or all of the three drchrono headers.
HeaderValue(name) ==
    CASE name = "x-drchrono-event"     -> "appointments"
      [] name = "x-drchrono-signature" -> "sig-abc"
      [] OTHER                         -> "delivery-42"

HeaderNames == {"x-drchrono-event", "x-drchrono-signature", "x-drchrono-delivery"}

HeaderSets ==
    {[n \in S |-> HeaderValue(n)] :
        S \in {{}, {"x-drchrono-event"},
               {"x-drchrono-signature", "x-drchrono-delivery"}, HeaderNames}}

\* dict.get(key, default)
Get(d, key, default) == IF key \in DOMAIN d THEN d[key] ELSE default

(***************************************************************************)
(* request.json(): json.loads(body) on bytes (main.py:90).                 *)
(***************************************************************************)
EmptyObject == [type |-> "object"]

\* bytes.decode: with the bytes of Bytes, a body is UTF-8 text exactly when
\* it holds no 0xFF.
Utf8Valid(b) == \A i \in 1..Len(b) : b[i] < 128

RECURSIVE DigitsValue(_)
DigitsValue(b) ==
    IF Len(b) = 0 THEN 0
    ELSE 10 * DigitsValue(SubSeq(b, 1, Len(b) - 1)) + (b[Len(b)] - 48)

IsNumber(b) == Len(b) > 0 /\ \A i \in 1..Len(b) : b[i] \in 48..57

\* The outcome of json.loads(body): a value, or the exception it raises.
\* UnicodeDecodeError is a ValueError but not a json.JSONDecodeError.
JsonLoads(b) ==
    IF ~Utf8Valid(b) THEN [raised |-> "UnicodeDecodeError"]
    ELSE IF b = <<123, 125>> THEN [raised |-> "", value |-> EmptyObject]
    ELSE IF IsNumber(b) THEN
        [raised |-> "", value |-> [type |-> "number", n |-> DigitsValue(b)]]
    ELSE [raised |-> "JSONDecodeError"]

\* The exceptions the inner try (main.py:89-93) catches.
InnerCaught == {"JSONDecodeError"}

\* main.py:88-93: json_body, or the exception that leaves the inner try.
ParseBody(body) ==
    IF Len(body) = 0 THEN [raised |-> "", value |-> EmptyObject]
    ELSE LET r == JsonLoads(body) IN
         IF r.raised = "" THEN r
         ELSE IF r.raised \in InnerCaught
              THEN [raised |-> "", value |-> EmptyObject]
              ELSE r

\* Variant: the defaults of the absent headers exchanged.
RelayData_NoDefault(headers, json_body) ==
    [headers |-> [event     |-> Get(headers, "x-drchrono-event", ""),
                  signature |-> Get(headers, "x-drchrono-signature", "unknown"),
                  delivery  |-> Get(headers, "x-drchrono-delivery", "unknown"),
                  content_type |-> "application/json"],
     body |-> json_body]

\* main.py:79-81, 96-104: relay_data.
RelayData(headers, json_body) ==
    [headers |-> [event     |-> Get(headers, "x-drchrono-event", "unknown"),
                  signature |-> Get(headers, "x-drchrono-signature", ""),
                  delivery  |-> Get(headers, "x-drchrono-delivery", ""),
                  content_type |-> "application/json"],
     body |-> json_body]

(***************************************************************************)
(* Outbound calls: what httpx gives back for one client.post.              *)
(***************************************************************************)
\* Status codes a destination may answer with.
Codes == {200, 404, 500}

NoResult == [kind |-> "none"]

Response(code) == [kind |-> "response", status_code |-> code]

Raised(cls, msg) == [kind |-> "exception", cls |-> cls, msg |-> msg]

\* The exception httpx raises when the timeout of the client (main.py:107)
\* expires; its message is empty.
TimeoutExc == Raised("ReadTimeout", "")

\* Other transport failures of a call.
TransportExcs ==
    {Raised("ConnectError", "All connection attempts failed"),
     Raised("ReadError", "")}

\* Raised for a URL without a scheme, before anything is sent.
UnsupportedProtocolExc ==
    Raised("UnsupportedProtocol",
           "Request URL is missing an 'http://' or 'https://' protocol.")

\* httpx's exception hierarchy, as the except clauses (main.py:158, 169) see it.
IsTimeoutException(cls) == cls \in {"ReadTimeout"}

IsRequestError(cls) ==
    cls \in {"ReadTimeout", "ConnectError", "ReadError", "UnsupportedProtocol"}

\* What the destination behind a URL may do with one call: reply with a
\* status code, fail at the transport level, or never reply.
Behaviours(url) ==
    IF url = "" THEN {[kind |-> "fail", exc |-> UnsupportedProtocolExc]}
    ELSE {[kind |-> "reply", code |-> c] : c \in Codes}
         \cup {[kind |-> "fail", exc |-> e] : e \in TransportExcs}
         \cup {[kind |-> "silent"]}

Unsent == [kind |-> "unsent"]

\* str(exception)
Str(exc) == exc.msg

(***************************************************************************)
(* State.                                                                  *)
(***************************************************************************)
VARIABLES
    RELAY_URLS,   \* main.py:27, fixed at start-up
    WEBHOOK_SECRET_TOKEN,  \* main.py:20, fixed at start-up
    pc,           \* where the handler is: idle, received, gathering, responded
    request,      \* the inbound request: [headers, body]
    relay_data,   \* main.py:96
    tasks,        \* per destination: [state, result] of its client.post task
    dest,         \* per destination: the behaviour of the destination for this call
    elapsed,      \* per call: clock ticks since it was sent
    attempts,     \* per destination: calls sent for the current request
    completed,    \* destinations in the order their calls settled
    branch,       \* the return or except clause the handler left through
    response,     \* the response given to the caller
    verification,       \* the GET /webhook in progress: [pc, msg, response]
    last_verification,  \* the msg and the secret_token of the previous GET /webhook
    status_response,    \* the response of the GET /webhook/status in progress
    handlers      \* POST handlers running side by side, each with its own locals

vars == <<RELAY_URLS, WEBHOOK_SECRET_TOKEN, pc, request, relay_data, tasks, dest,
          elapsed, attempts, completed, branch, response, verification,
          last_verification, status_response, handlers>>

\* What a step of the single POST handler below leaves alone.
elsewhere == <<WEBHOOK_SECRET_TOKEN, verification, last_verification,
               status_response, handlers>>

NoTask == [state |-> "none", result |-> NoResult]

NoRequest == [headers |-> <<>>, body |-> <<>>]

NoRelayData == RelayData(<<>>, EmptyObject)

NoResponse == [http_status |-> 0]

NoVerification == [pc |-> "idle", msg |-> <<>>, response |-> NoResponse]

NoLastVerification == [seen |-> FALSE]

Handlers == {"a", "b"}

NoHandler ==
    [pc |-> "idle", request |-> NoRequest, relay_data |-> NoRelayData,
     tasks |-> [j \in Dests |-> NoTask], response |-> NoResponse]

\* No GET request in progress.
GetAtRest ==
    /\ verification = NoVerification
    /\ last_verification = NoLastVerification
    /\ status_response = NoResponse

\* No POST in progress in the single handler.
PostAtRest ==
    /\ pc = "idle"
    /\ request = NoRequest
    /\ relay_data = NoRelayData
    /\ tasks = [j \in Dests |-> NoTask]
    /\ dest = [j \in Dests |-> Unsent]
    /\ elapsed = [j \in Dests |-> 0]
    /\ attempts = [j \in Dests |-> 0]
    /\ completed = <<>>
    /\ branch = "none"
    /\ response = NoResponse

HandlersAtRest == handlers = [h \in Handlers |-> NoHandler]

\* The secret is left at its default: the POST handler never reads it.
Init ==
    /\ RELAY_URLS \in Configs
    /\ WEBHOOK_SECRET_TOKEN = SecretPlaceholder
    /\ GetAtRest
    /\ HandlersAtRest
    /\ pc = "idle"
    /\ request = NoRequest
    /\ relay_data = NoRelayData
    /\ tasks = [j \in Dests |-> NoTask]
    /\ dest = [j \in Dests |-> Unsent]
    /\ elapsed = [j \in Dests |-> 0]
    /\ attempts = [j \in Dests |-> 0]
    /\ completed = <<>>
    /\ branch = "none"
    /\ response = NoResponse

(***************************************************************************)
(* asyncio.gather and the aggregation of its results.                      *)
(***************************************************************************)
\* Variant: gather without return_exceptions.
ReturnExceptions_Off == FALSE

\* gather(..., return_exceptions=True), main.py:125
ReturnExceptions == TRUE

AllDone == \A j \in Dests : tasks[j].state = "done"

\* Destinations whose call raised, in the order the calls settled.
RaisedInOrder == SelectSeq(completed, LAMBDA j : tasks[j].result.kind = "exception")

\* gather hands back once every task is done; without return_exceptions it
\* also hands the first exception to its caller as soon as a task raises.
GatherReady ==
    IF ReturnExceptions THEN AllDone ELSE AllDone \/ Len(RaisedInOrder) > 0

\* Variant: results handed back in the order the calls finished.
GatherResults_ByCompletion == [i \in 1..Len(completed) |-> tasks[completed[i]].result]

\* The list gather returns: one result per awaitable, in the order the
\* awaitables were passed, whatever the order they finished in.
GatherResults == [i \in 1..N |-> tasks[i].result]

\* Variant: a reply is a success only when its status code is below 400
\* (response.raise_for_status()).
Entry_StrictHttp(i, r) ==
    IF r.kind = "exception"
    THEN [url_index |-> i, url |-> RELAY_URLS[i], status |-> "error",
          error |-> Str(r)]
    ELSE IF r.status_code >= 400
    THEN [url_index |-> i, url |-> RELAY_URLS[i], status |-> "error",
          error |-> "Server error", status_code |-> r.status_code]
    ELSE [url_index |-> i, url |-> RELAY_URLS[i], status |-> "success",
          status_code |-> r.status_code]

\* Variant: every entry carries both a status_code and an error field.
Entry_BothFields(i, r) ==
    IF r.kind = "exception"
    THEN [url_index |-> i, url |-> RELAY_URLS[i], status |-> "error",
          error |-> Str(r), status_code |-> 0]
    ELSE [url_index |-> i, url |-> RELAY_URLS[i], status |-> "success",
          status_code |-> r.status_code, error |-> ""]

\* main.py:129-144: the entry appended for the i-th result.
Entry(i, r) ==
    IF r.kind = "exception"
    THEN [url_index |-> i, url |-> RELAY_URLS[i], status |-> "error",
          error |-> Str(r)]
    ELSE [url_index |-> i, url |-> RELAY_URLS[i], status |-> "success",
          status_code |-> r.status_code]

\* main.py:128-144
ProcessResults(responses) == [i \in 1..Len(responses) |-> Entry(i, responses[i])]

\* Variant: a failed relay turns the response into a 502.
SuccessResponse_BadGateway(relay_results, event, delivery) ==
    [http_status |->
        IF \E i \in 1..Len(relay_results) : relay_results[i].status = "error"
        THEN 502 ELSE 200,
     status |-> "success",
     message |-> "Webhook received and relayed to all destinations",
     relay_results |-> relay_results,
     event |-> event,
     delivery_id |-> delivery]

\* main.py:147-156
SuccessResponse(relay_results, event, delivery) ==
    [http_status |-> 200,
     status |-> "success",
     message |-> "Webhook received and relayed to all destinations",
     relay_results |-> relay_results,
     event |-> event,
     delivery_id |-> delivery]

\* main.py:158-182: the except clause an exception of class cls is caught by,
\* and the response it gives.
ExceptBranch(cls) ==
    IF IsTimeoutException(cls) THEN "timeout"
    ELSE IF IsRequestError(cls) THEN "request_error"
    ELSE "internal"

ExceptResponse(cls) ==
    IF IsTimeoutException(cls) THEN
        [http_status |-> 200, status |-> "timeout",
         message |-> "Webhook received but relay timed out"]
    ELSE IF IsRequestError(cls) THEN
        [http_status |-> 200, status |-> "error",
         message |-> "Webhook received but relay failed"]
    ELSE [http_status |-> 500, detail |-> "Internal server error"]

(***************************************************************************)
(* The timeout of one call.                                                *)
(***************************************************************************)
\* Variant: one clock for all the calls of a request.
TimedOut_Shared(j) == \E k \in Dests : elapsed[k] >= RELAY_TIMEOUT

\* Variant: a client without timeout.
TimedOut_Never(j) == FALSE

\* AsyncClient(timeout=RELAY_TIMEOUT), main.py:107: each call has its own clock.
TimedOut(j) == elapsed[j] >= RELAY_TIMEOUT

(***************************************************************************)
(* Actions.                                                                *)
(***************************************************************************)
\* A POST /webhook reaches the handler (main.py:63-64).
ReceivePost(h, b) ==
    /\ pc = "idle"
    /\ pc' = "received"
    /\ request' = [headers |-> h, body |-> b]
    /\ UNCHANGED <<RELAY_URLS, relay_data, tasks, dest, elapsed, attempts,
                   completed, branch, response>>
    /\ UNCHANGED elsewhere

\* main.py:74-125: the handler up to its await of gather: headers, body,
\* relay_data, one task per relay URL.  An exception leaving the inner try
\* is caught by the outer except clauses.
HandlerStart ==
    /\ pc = "received"
    /\ LET p == ParseBody(request.body) IN
       IF p.raised = ""
       THEN /\ relay_data' = RelayData(request.headers, p.value)
            /\ tasks' = [j \in Dests |-> [state |-> "created", result |-> NoResult]]
            /\ pc' = "gathering"
            /\ UNCHANGED <<branch, response>>
       ELSE /\ branch' = ExceptBranch(p.raised)
            /\ response' = ExceptResponse(p.raised)
            /\ pc' = "responded"
            /\ UNCHANGED <<relay_data, tasks>>
    /\ UNCHANGED <<RELAY_URLS, request, dest, elapsed, attempts, completed>>
    /\ UNCHANGED elsewhere

\* The task of destination j starts running client.post (main.py:114-121):
\* the call is made, and the destination behaves in one of its ways.
SendRequest(j) ==
    /\ pc = "gathering"
    /\ tasks[j].state = "created"
    /\ \E d \in Behaviours(RELAY_URLS[j]) : dest' = [dest EXCEPT ![j] = d]
    /\ tasks' = [tasks EXCEPT ![j].state = "inflight"]
    /\ attempts' = [attempts EXCEPT ![j] = @ + 1]
    /\ elapsed' = [elapsed EXCEPT ![j] = 0]
    /\ UNCHANGED <<RELAY_URLS, pc, request, relay_data, completed, branch, response>>
    /\ UNCHANGED elsewhere

\* Time passes for the call to destination j.  A destination that replies or
\* fails does so within the timeout.
Tick(j) ==
    /\ tasks[j].state = "inflight"
    /\ elapsed[j] < RELAY_TIMEOUT
    /\ dest[j].kind = "silent" \/ elapsed[j] + 1 < RELAY_TIMEOUT
    /\ elapsed' = [elapsed EXCEPT ![j] = @ + 1]
    /\ UNCHANGED <<RELAY_URLS, pc, request, relay_data, tasks, dest, attempts,
                   completed, branch, response>>
    /\ UNCHANGED elsewhere

\* The task of destination j ends with result r.
Settle(j, r) ==
    /\ tasks' = [tasks EXCEPT ![j] = [state |-> "done", result |-> r]]
    /\ completed' = Append(completed, j)
    /\ UNCHANGED <<RELAY_URLS, pc, request, relay_data, dest, elapsed, attempts,
                   branch, response>>
    /\ UNCHANGED elsewhere

Reply(j) ==
    /\ tasks[j].state = "inflight"
    /\ dest[j].kind = "reply"
    /\ ~TimedOut(j)
    /\ Settle(j, Response(dest[j].code))

TransportFail(j) ==
    /\ tasks[j].state = "inflight"
    /\ dest[j].kind = "fail"
    /\ ~TimedOut(j)
    /\ Settle(j, dest[j].exc)

TimeoutExpire(j) ==
    /\ tasks[j].state = "inflight"
    /\ TimedOut(j)
    /\ Settle(j, TimeoutExc)

\* main.py:125-182: gather hands back, the handler builds relay_results and
\* answers; an exception raised by gather leaves the async with block (the
\* client is closed, which ends the calls still in flight) and is caught by
\* the outer except clauses.
GatherReturn ==
    /\ pc = "gathering"
    /\ GatherReady
    /\ IF ~ReturnExceptions /\ Len(RaisedInOrder) > 0
       THEN LET cls == tasks[RaisedInOrder[1]].result.cls IN
            /\ branch' = ExceptBranch(cls)
            /\ response' = ExceptResponse(cls)
            /\ tasks' = [j \in Dests |->
                            IF tasks[j].state = "done" THEN tasks[j]
                            ELSE [state |-> "cancelled", result |-> NoResult]]
       ELSE /\ branch' = "ok"
            /\ response' = SuccessResponse(ProcessResults(GatherResults),
                                           relay_data.headers.event,
                                           relay_data.headers.delivery)
            /\ UNCHANGED tasks
    /\ pc' = "responded"
    /\ UNCHANGED <<RELAY_URLS, request, relay_data, dest, elapsed, attempts, completed>>
    /\ UNCHANGED elsewhere

\* The response is sent and everything the handler held is dropped: nothing
\* but the configuration outlives a request.
Finish ==
    /\ pc = "responded"
    /\ pc' = "idle"
    /\ request' = NoRequest
    /\ relay_data' = NoRelayData
    /\ tasks' = [j \in Dests |-> NoTask]
    /\ dest' = [j \in Dests |-> Unsent]
    /\ elapsed' = [j \in Dests |-> 0]
    /\ attempts' = [j \in Dests |-> 0]
    /\ completed' = <<>>
    /\ branch' = "none"
    /\ response' = NoResponse
    /\ UNCHANGED RELAY_URLS
    /\ UNCHANGED elsewhere

Next ==
    \/ \E h \in HeaderSets, b \in Bodies : ReceivePost(h, b)
    \/ HandlerStart
    \/ \E j \in Dests : SendRequest(j)
    \/ \E j \in Dests : Tick(j)
    \/ \E j \in Dests : Reply(j)
    \/ \E j \in Dests : TransportFail(j)
    \/ \E j \in Dests : TimeoutExpire(j)
    \/ GatherReturn
    \/ Finish

Spec == Init /\ [][Next]_vars

\* The event loop keeps running whatever is ready, and time passes: a step of
\* the handler or of one of its calls that stays possible is taken.
Progress ==
    \/ HandlerStart
    \/ \E j \in Dests : SendRequest(j) \/ Tick(j) \/ Reply(j) \/ TransportFail(j)
                          \/ TimeoutExpire(j)
    \/ GatherReturn

FairSpec == Spec /\ WF_vars(Progress)

(***************************************************************************)
(* GET /webhook: the verification digest (main.py:34-61).                  *)
(***************************************************************************)
\* A secret longer than a SHA-256 block.
LongSecret == "kkkkkkkkkkkkkkkkkkkkkkkkkkkkkkkkkkkkkkkkkkkkkkkkkkkkkkkkkkkkkkkkkkkkkk"

\* Values WEBHOOK_SECRET_TOKEN may have: its default, or the override, which
\* may be the empty string.
Secrets == {SecretPlaceholder, "s3cr3t", "", LongSecret}

\* The code points of the strings of Secrets.
CodePoints(str) ==
    CASE str = SecretPlaceholder ->
            <<121, 111, 117, 114, 45, 115, 101, 99, 114, 101, 116, 45,
              116, 111, 107, 101, 110, 45, 104, 101, 114, 101>>
      [] str = "s3cr3t" -> <<115, 51, 99, 114, 51, 116>>
      [] str = LongSecret -> [i \in 1..70 |-> 107]
      [] OTHER -> <<>>

\* Values of the msg query parameter, as code points: "ping", the empty
\* string, U+00E9 U+20AC, and "0123456789" six times.
MsgPing == <<112, 105, 110, 103>>

MsgEmpty == <<>>

MsgNonAscii == <<233, 8364>>

MsgDigits == [i \in 1..60 |-> 48 + ((i - 1) % 10)]

Msgs == {MsgPing, MsgEmpty, MsgNonAscii, MsgDigits}

(***************************************************************************)
(* hashlib.sha256 and hmac (main.py:46-50), on bytes.  A 32-bit word is    *)
(* the pair <<high 16 bits, low 16 bits>>.                                 *)
(***************************************************************************)
RECURSIVE XorBits(_, _, _)
XorBits(a, b, n) ==
    IF n = 0 THEN 0
    ELSE ((a + b) % 2) + 2 * XorBits(a \div 2, b \div 2, n - 1)

RECURSIVE AndBits(_, _, _)
AndBits(a, b, n) ==
    IF n = 0 THEN 0
    ELSE ((a % 2) * (b % 2)) + 2 * AndBits(a \div 2, b \div 2, n - 1)

XorTab == [a \in 0..255 |-> [b \in 0..255 |-> XorBits(a, b, 8)]]

AndTab == [a \in 0..255 |-> [b \in 0..255 |-> AndBits(a, b, 8)]]

Xor16(a, b) == XorTab[a \div 256][b \div 256] * 256 + XorTab[a % 256][b % 256]

And16(a, b) == AndTab[a \div 256][b \div 256] * 256 + AndTab[a % 256][b % 256]

XorW(x, y) == <<Xor16(x[1], y[1]), Xor16(x[2], y[2])>>

AndW(x, y) == <<And16(x[1], y[1]), And16(x[2], y[2])>>

NotW(x) == <<65535 - x[1], 65535 - x[2]>>

AddW(x, y) ==
    LET lo == x[2] + y[2]
        hi == x[1] + y[1] + (lo \div 65536)
    IN <<hi % 65536, lo % 65536>>

\* Rotation and shift to the right by n < 16 bits.
RotRSmall(x, n) ==
    LET p == 2^n
        q == 2^(16 - n)
    IN <<(x[1] \div p) + (x[2] % p) * q, (x[2] \div p) + (x[1] % p) * q>>

RotR(x, n) == IF n >= 16 THEN RotRSmall(<<x[2], x[1]>>, n - 16) ELSE RotRSmall(x, n)

ShR(x, n) ==
    LET p == 2^n
        q == 2^(16 - n)
    IN <<x[1] \div p, (x[2] \div p) + (x[1] % p) * q>>

BigSigma0(x) == XorW(XorW(RotR(x, 2), RotR(x, 13)), RotR(x, 22))

BigSigma1(x) == XorW(XorW(RotR(x, 6), RotR(x, 11)), RotR(x, 25))

SmallSigma0(x) == XorW(XorW(RotR(x, 7), RotR(x, 18)), ShR(x, 3))

SmallSigma1(x) == XorW(XorW(RotR(x, 17), RotR(x, 19)), ShR(x, 10))

Ch(e, f, g) == XorW(AndW(e, f), AndW(NotW(e), g))

Maj(a, b, c) == XorW(XorW(AndW(a, b), AndW(a, c)), AndW(b, c))

ShaK ==
    <<
      <<17034, 12184>>, <<28983, 17553>>, <<46528, 64463>>, <<59829, 56229>>,
      <<14678, 49755>>, <<23025, 4593>>, <<37439, 33444>>, <<43804, 24277>>,
      <<55303, 43672>>, <<4739, 23297>>, <<9265, 34238>>, <<21772, 32195>>,
      <<29374, 23924>>, <<32990, 45566>>, <<39900, 1703>>, <<49563, 61812>>,
      <<58523, 27073>>, <<61374, 18310>>, <<4033, 40390>>, <<9228, 41420>>,
      <<11753, 11375>>, <<19060, 33962>>, <<23728, 43484>>, <<30457, 35034>>,
      <<38974, 20818>>, <<43057, 50797>>, <<45059, 10184>>, <<48985, 32711>>,
      <<50912, 3059>>, <<54695, 37191>>, <<1738, 25425>>, <<5161, 10599>>,
      <<10167, 2693>>, <<11803, 8504>>, <<19756, 28156>>, <<21304, 3347>>,
      <<25866, 29524>>, <<30314, 2747>>, <<33218, 51502>>, <<37490, 11397>>,
      <<41663, 59553>>, <<43034, 26187>>, <<49739, 35696>>, <<51052, 20899>>,
      <<53650, 59417>>, <<54937, 1572>>, <<62478, 13701>>, <<4202, 41072>>,
      <<6564, 49430>>, <<7735, 27656>>, <<10056, 30540>>, <<13488, 48309>>,
      <<14620, 3251>>, <<20184, 43594>>, <<23452, 51791>>, <<26670, 28659>>,
      <<29839, 33518>>, <<30885, 25455>>, <<33992, 30740>>, <<36039, 520>>,
      <<37054, 65530>>, <<42064, 27883>>, <<48889, 41975>>, <<50801, 30962>>
    >>

ShaH0 ==
    <<
      <<27145, 58983>>, <<47975, 44677>>, <<15470, 62322>>, <<42319, 62778>>,
      <<20750, 21119>>, <<39685, 26764>>, <<8067, 55723>>, <<23520, 52505>>
    >>

\* Padding: 0x80, zeros up to 56 mod 64, the bit length on 8 bytes.
Zeros(n) == [i \in 1..n |-> 0]

ShaPad(m) ==
    LET len  == Len(m)
        bits == 8 * len
        z    == (119 - (len % 64)) % 64
    IN m \o <<128>> \o Zeros(z) \o <<0, 0, 0, 0>>
         \o <<bits \div 16777216, (bits \div 65536) % 256, (bits \div 256) % 256,
              bits % 256>>

\* The 16 big-endian words of the 64-byte block that starts after byte off.
BlockWords(p, off) ==
    [t \in 1..16 |->
        <<p[off + 4 * t - 3] * 256 + p[off + 4 * t - 2],
          p[off + 4 * t - 1] * 256 + p[off + 4 * t]>>]

\* The message schedule: w extended by its words lo..hi (halving the range
\* keeps the evaluation shallow).
RECURSIVE Schedule(_, _, _)
Schedule(w, lo, hi) ==
    IF lo = hi
    THEN Append(w, AddW(AddW(SmallSigma1(w[lo - 2]), w[lo - 7]),
                        AddW(SmallSigma0(w[lo - 15]), w[lo - 16])))
    ELSE LET mid == (lo + hi) \div 2
             left == Schedule(w, lo, mid)
         IN IF Len(left) = mid THEN Schedule(left, mid + 1, hi) ELSE left

Round(s, w, t) ==
    LET t1 == AddW(AddW(AddW(s[8], BigSigma1(s[5])),
                        AddW(Ch(s[5], s[6], s[7]), ShaK[t])), w[t])
        t2 == AddW(BigSigma0(s[1]), Maj(s[1], s[2], s[3]))
    IN <<AddW(t1, t2), s[1], s[2], s[3], AddW(s[4], t1), s[5], s[6], s[7]>>

\* The working variables after each of the rounds lo..hi, appended to tr
\* (halving the range keeps the evaluation shallow).
RECURSIVE Rounds(_, _, _, _)
Rounds(tr, w, lo, hi) ==
    IF lo = hi
    THEN Append(tr, Round(tr[Len(tr)], w, lo))
    ELSE LET mid == (lo + hi) \div 2
             left == Rounds(tr, w, lo, mid)
         IN IF Len(left) = mid + 1 THEN Rounds(left, w, mid + 1, hi) ELSE left

Compress(h, words) ==
    LET w == Schedule(words, 17, 64)
        s == Rounds(<<h>>, w, 1, 64)[65]
    IN IF Len(w) = 64 THEN [i \in 1..8 |-> AddW(h[i], s[i])] ELSE h

\* The chaining values: hs extended by the value after each block of p from
\* byte off on.
RECURSIVE ShaBlocks(_, _, _)
ShaBlocks(hs, p, off) ==
    IF off >= Len(p) THEN hs
    ELSE ShaBlocks(Append(hs, Compress(hs[Len(hs)], BlockWords(p, off))), p, off + 64)

\* hashlib.sha256(m).digest(): 32 bytes.
Sha256(m) ==
    LET hs == ShaBlocks(<<ShaH0>>, ShaPad(m), 0)
        h  == hs[Len(hs)]
    IN [i \in 1..32 |->
          LET w == h[((i - 1) \div 4) + 1]
              k == (i - 1) % 4
          IN IF k = 0 THEN w[1] \div 256
             ELSE IF k = 1 THEN w[1] % 256
             ELSE IF k = 2 THEN w[2] \div 256
             ELSE w[2] % 256]

\* hmac.new(key, msg, hashlib.sha256).digest()
HmacSha256(key, msg) ==
    LET k0   == IF Len(key) > 64 THEN Sha256(key) ELSE key
        kp   == k0 \o Zeros(64 - Len(k0))
        ipad == [i \in 1..64 |-> XorTab[kp[i]][54]]
        opad == [i \in 1..64 |-> XorTab[kp[i]][92]]
        inner == Sha256(ipad \o msg)
    IN IF Len(inner) = 32 THEN Sha256(opad \o inner) ELSE <<>>

HexChars == <<"0", "1", "2", "3", "4", "5", "6", "7", "8", "9",
              "a", "b", "c", "d", "e", "f">>

\* .hexdigest(): two lowercase hexadecimal characters per byte.
RECURSIVE HexDigest(_)
HexDigest(bytes) ==
    IF Len(bytes) = 0 THEN ""
    ELSE HexChars[(Head(bytes) \div 16) + 1] \o HexChars[(Head(bytes) % 16) + 1]
         \o HexDigest(Tail(bytes))

\* str.encode('utf-8') of a string given as its code points (below U+10000,
\* no surrogates).
RECURSIVE Utf8Encode(_)
Utf8Encode(s) ==
    IF Len(s) = 0 THEN <<>>
    ELSE LET c == Head(s) IN
         (IF c < 128 THEN <<c>>
          ELSE IF c < 2048 THEN <<192 + (c \div 64), 128 + (c % 64)>>
          ELSE <<224 + (c \div 4096), 128 + ((c \div 64) % 64), 128 + (c % 64)>>)
         \o Utf8Encode(Tail(s))

\* Variant: the message used as the key and the secret as the message.
SecretToken_KeyMsgSwapped(secret, msg) ==
    HexDigest(HmacSha256(Utf8Encode(msg), Utf8Encode(CodePoints(secret))))

\* main.py:46-50
SecretToken(secret, msg) ==
    HexDigest(HmacSha256(Utf8Encode(CodePoints(secret)), Utf8Encode(msg)))

\* main.py:54-57
VerificationResponse(secret_token) ==
    [http_status |-> 200, secret_token |-> secret_token]

\* A GET /webhook?msg=... reaches the handler (main.py:34-35).
GetWebhook(msg) ==
    /\ verification.pc = "idle"
    /\ verification' = [pc |-> "requested", msg |-> msg, response |-> NoResponse]
    /\ UNCHANGED <<RELAY_URLS, WEBHOOK_SECRET_TOKEN, last_verification,
                   status_response, handlers>>
    /\ UNCHANGED <<pc, request, relay_data, tasks, dest, elapsed, attempts,
                   completed, branch, response>>

\* main.py:42-57: the digest is computed and returned.
WebhookVerification ==
    /\ verification.pc = "requested"
    /\ verification' =
          [verification EXCEPT
              !.pc = "responded",
              !.response = VerificationResponse(
                               SecretToken(WEBHOOK_SECRET_TOKEN, verification.msg))]
    /\ UNCHANGED <<RELAY_URLS, WEBHOOK_SECRET_TOKEN, last_verification,
                   status_response, handlers>>
    /\ UNCHANGED <<pc, request, relay_data, tasks, dest, elapsed, attempts,
                   completed, branch, response>>

\* The response is sent; its caller remembers what it asked and what it got.
VerificationDone ==
    /\ verification.pc = "responded"
    /\ last_verification' = [seen |-> TRUE, msg |-> verification.msg,
                             secret_token |-> verification.response.secret_token]
    /\ verification' = NoVerification
    /\ UNCHANGED <<RELAY_URLS, WEBHOOK_SECRET_TOKEN, status_response, handlers>>
    /\ UNCHANGED <<pc, request, relay_data, tasks, dest, elapsed, attempts,
                   completed, branch, response>>

VerifyInit ==
    /\ RELAY_URLS \in Configs
    /\ WEBHOOK_SECRET_TOKEN \in Secrets
    /\ GetAtRest
    /\ PostAtRest
    /\ HandlersAtRest

VerifyNext ==
    \/ \E msg \in Msgs : GetWebhook(msg)
    \/ WebhookVerification
    \/ VerificationDone

VerifySpec == VerifyInit /\ [][VerifyNext]_vars

(***************************************************************************)
(* GET /webhook/status: the configuration report (main.py:184-206).        *)
(***************************************************************************)
\* Values RELAY_URL_k may have: its placeholder, an override, or the empty
\* string.
UrlValues(k) ==
    {PlaceholderUrl(k), "",
     CASE k = 1 -> "https://relay-1.example/hook"
       [] k = 2 -> "https://relay-2.example/hook"
       [] OTHER -> "https://relay-3.example/hook"}

StatusConfigs ==
    {<<u1, u2, u3>> : u1 \in UrlValues(1), u2 \in UrlValues(2), u3 \in UrlValues(3)}

\* Variant: configured is whatever differs from the placeholder.
Configured_NotPlaceholder(value, placeholder) == value # placeholder

\* bool(X and X != placeholder), main.py:190-201
Configured(value, placeholder) == value # "" /\ value # placeholder

\* main.py:189-206
StatusReport ==
    [http_status |-> 200,
     webhook_secret_configured |-> Configured(WEBHOOK_SECRET_TOKEN, SecretPlaceholder),
     relay_urls |->
        [k \in Dests |->
            [configured |-> Configured(RELAY_URLS[k], PlaceholderUrl(k)),
             url |-> RELAY_URLS[k]]],
     relay_timeout |-> RELAY_TIMEOUT]

\* The handler of GET /webhook/status, whole (main.py:184-206).
WebhookStatus ==
    /\ status_response = NoResponse
    /\ status_response' = StatusReport
    /\ UNCHANGED <<RELAY_URLS, WEBHOOK_SECRET_TOKEN, verification,
                   last_verification, handlers>>
    /\ UNCHANGED <<pc, request, relay_data, tasks, dest, elapsed, attempts,
                   completed, branch, response>>

\* The response is sent.
StatusDone ==
    /\ status_response # NoResponse
    /\ status_response' = NoResponse
    /\ UNCHANGED <<RELAY_URLS, WEBHOOK_SECRET_TOKEN, verification,
                   last_verification, handlers>>
    /\ UNCHANGED <<pc, request, relay_data, tasks, dest, elapsed, attempts,
                   completed, branch, response>>

StatusInit ==
    /\ RELAY_URLS \in StatusConfigs
    /\ WEBHOOK_SECRET_TOKEN \in Secrets
    /\ GetAtRest
    /\ PostAtRest
    /\ HandlersAtRest

StatusNext == WebhookStatus \/ StatusDone

StatusSpec == StatusInit /\ [][StatusNext]_vars

(***************************************************************************)
(* POST /webhook handled by several handlers side by side: each request    *)
(* runs webhook_handler as a coroutine of its own, with its own locals     *)
(* (main.py:63-182); the module constants are all they share.              *)
(***************************************************************************)
\* The requests the handlers are given.
ConcurrentRequests ==
    {[headers |-> [n \in HeaderNames |-> HeaderValue(n)], body |-> <<49>>],
     [headers |-> <<>>, body |-> <<>>],
     [headers |-> [n \in {"x-drchrono-event"} |-> HeaderValue(n)], body |-> <<255>>]}

\* What a call of a handler may end with.
ConcurrentOutcomes(url) ==
    IF url = "" THEN {UnsupportedProtocolExc}
    ELSE {Response(200), Response(500), TimeoutExc}

\* Variant: the results are read from one list of tasks shared by the handlers.
HandlerResults_Shared(h) ==
    [i \in 1..N |->
        LET done == {g \in Handlers : handlers[g].tasks[i].state = "done"}
        IN handlers[CHOOSE g \in done : TRUE].tasks[i].result]

\* The list gather returns to handler h: the results of h's own tasks
\* (main.py:112-125).
HandlerResults(h) == [i \in 1..N |-> handlers[h].tasks[i].result]

\* What a step of the handlers leaves alone.
unshared == <<RELAY_URLS, WEBHOOK_SECRET_TOKEN, verification, last_verification,
              status_response, pc, request, relay_data, tasks, dest, elapsed,
              attempts, completed, branch, response>>

\* A POST /webhook reaches handler h (main.py:63-64).
ConcurrentReceive(h, req) ==
    /\ handlers[h].pc = "idle"
    /\ handlers' = [handlers EXCEPT ![h].pc = "received", ![h].request = req]
    /\ UNCHANGED unshared

\* main.py:74-125 in handler h.
ConcurrentStart(h) ==
    /\ handlers[h].pc = "received"
    /\ LET p == ParseBody(handlers[h].request.body) IN
       IF p.raised = ""
       THEN handlers' =
               [handlers EXCEPT
                   ![h].pc = "gathering",
                   ![h].relay_data = RelayData(handlers[h].request.headers, p.value),
                   ![h].tasks = [j \in Dests |->
                                    [state |-> "created", result |-> NoResult]]]
       ELSE handlers' = [handlers EXCEPT ![h].pc = "responded",
                                         ![h].response = ExceptResponse(p.raised)]
    /\ UNCHANGED unshared

\* The task of handler h for destination j makes its call (main.py:114-121).
ConcurrentSend(h, j) ==
    /\ handlers[h].pc = "gathering"
    /\ handlers[h].tasks[j].state = "created"
    /\ handlers' = [handlers EXCEPT ![h].tasks[j].state = "inflight"]
    /\ UNCHANGED unshared

\* The call of handler h to destination j ends, with one of the results it
\* may end with.
ConcurrentSettle(h, j) ==
    /\ handlers[h].tasks[j].state = "inflight"
    /\ \E r \in ConcurrentOutcomes(RELAY_URLS[j]) :
          handlers' = [handlers EXCEPT
                          ![h].tasks[j] = [state |-> "done", result |-> r]]
    /\ UNCHANGED unshared

\* main.py:125-156 in handler h.
ConcurrentGatherReturn(h) ==
    /\ handlers[h].pc = "gathering"
    /\ \A j \in Dests : handlers[h].tasks[j].state = "done"
    /\ handlers' =
          [handlers EXCEPT
              ![h].pc = "responded",
              ![h].response = SuccessResponse(ProcessResults(HandlerResults(h)),
                                              handlers[h].relay_data.headers.event,
                                              handlers[h].relay_data.headers.delivery)]
    /\ UNCHANGED unshared

\* The response of handler h is sent and its locals are dropped.
ConcurrentFinish(h) ==
    /\ handlers[h].pc = "responded"
    /\ handlers' = [handlers EXCEPT ![h] = NoHandler]
    /\ UNCHANGED unshared

ConcurrentInit ==
    /\ RELAY_URLS \in Configs
    /\ WEBHOOK_SECRET_TOKEN = SecretPlaceholder
    /\ GetAtRest
    /\ PostAtRest
    /\ HandlersAtRest

ConcurrentNext ==
    \E h \in Handlers :
        \/ \E req \in ConcurrentRequests : ConcurrentReceive(h, req)
        \/ ConcurrentStart(h)
        \/ \E j \in Dests : ConcurrentSend(h, j)
        \/ \E j \in Dests : ConcurrentSettle(h, j)
        \/ ConcurrentGatherReturn(h)
        \/ ConcurrentFinish(h)

ConcurrentSpec == ConcurrentInit /\ [][ConcurrentNext]_vars

(***************************************************************************)
(* Properties.                                                             *)
(***************************************************************************)
Responded == pc = "responded"

Dispatched == \E j \in Dests : tasks[j].state # "none"

HasResults == "relay_results" \in DOMAIN response

\* What the call to a destination that behaves as d ends with on its own.
OwnOutcome(d) ==
    CASE d.kind = "reply" -> Response(d.code)
      [] d.kind = "fail"  -> d.exc
      [] OTHER            -> TimeoutExc

\* What an entry of relay_results tells about the call, apart from where it went.
Detail(e) ==
    IF e.status = "success" THEN <<"success", e.status_code>>
    ELSE <<e.status, e.error>>

\* C1: every response to a POST is produced after all N destinations have
\* settled and carries a relay_results list of exactly N entries.
C1_ResponseAfterAllSettled ==
    Responded => /\ AllDone
                 /\ HasResults
                 /\ Len(response.relay_results) = N

\* C2: whatever the destinations did (replies, transport errors, timeouts,
\* any mixture), the status code given to the caller is 200.
C2_StatusAlways200 ==
    (Responded /\ Dispatched) => response.http_status = 200

C2_Witness ==
    /\ Responded
    /\ dest[1].kind = "reply" /\ dest[2].kind = "silent" /\ dest[3].kind = "fail"
    /\ response.http_status = 200

\* C3: whatever the order the calls completed in, the i-th entry of
\* relay_results has url_index i, the i-th configured URL, and reports the
\* result of the call to the i-th destination.
C3_ResultsInConfiguredOrder ==
    (Responded /\ HasResults) =>
        /\ Len(response.relay_results) = N
        /\ \A i \in 1..N :
              LET e == response.relay_results[i]
                  r == tasks[i].result
              IN /\ e.url_index = i
                 /\ e.url = RELAY_URLS[i]
                 /\ r.kind = "response" =>
                        e.status = "success" /\ e.status_code = r.status_code
                 /\ r.kind = "exception" =>
                        e.status = "error" /\ e.error = r.msg
                 /\ r.kind \in {"response", "exception"}

C3_Witness ==
    /\ Responded /\ HasResults
    /\ completed = <<3, 1, 2>>
    /\ tasks[1].result.kind = "response"
    /\ tasks[2].result.kind = "exception"
    /\ tasks[3].result.kind = "exception"

\* C4: the outcome of the call to destination j is the one j's own behaviour
\* gives: no call is cancelled, only a destination that stayed silent for the
\* whole of its own timeout is timed out, and the entry recorded for j tells
\* j's own outcome.
C4_OutcomeDependsOnOwnBehaviour ==
    \A j \in Dests :
        /\ tasks[j].state # "cancelled"
        /\ tasks[j].state = "done" =>
              /\ tasks[j].result = OwnOutcome(dest[j])
              /\ tasks[j].result = TimeoutExc =>
                    dest[j].kind = "silent" /\ elapsed[j] = RELAY_TIMEOUT
        /\ (Responded /\ HasResults) =>
              Detail(response.relay_results[j]) =
                  (IF dest[j].kind = "reply" THEN <<"success", dest[j].code>>
                   ELSE IF dest[j].kind = "fail" THEN <<"error", dest[j].exc.msg>>
                   ELSE <<"error", TimeoutExc.msg>>)

C4_Witness ==
    /\ Responded /\ HasResults
    /\ dest[1].kind = "silent" /\ dest[2].kind = "reply" /\ dest[3].kind = "fail"
    /\ completed = <<1, 3, 2>>
    /\ response.relay_results[2].status = "success"

\* C5: the overall status of the response is "success" exactly when every
\* entry of relay_results is a success.
C5_OverallStatusReflectsOutcomes ==
    (Responded /\ HasResults) =>
        (response.status = "success"
            <=> \A i \in 1..Len(response.relay_results) :
                    response.relay_results[i].status = "success")

\* C6: the entry of a destination that timed out can be told, in the
\* response, from the entry of a destination that failed in another way.
C6_TimeoutDistinguishable ==
    (Responded /\ HasResults) =>
        \A i, j \in Dests :
            (dest[i].kind = "silent" /\ dest[j].kind = "fail") =>
                Detail(response.relay_results[i]) # Detail(response.relay_results[j])

\* C7: a POST whose body is empty or is no JSON text is not failed: its
\* relay_data body is the empty object and it is dispatched to every
\* destination.
C7_UndecodableBodyStillDispatched ==
    (pc \in {"gathering", "responded"}
        /\ (Len(request.body) = 0 \/ JsonLoads(request.body).raised # "")) =>
        /\ branch \in {"none", "ok"}
        /\ relay_data.body = EmptyObject
        /\ \A j \in Dests : tasks[j].state # "none"

\* C8: a failed call never leaves gather as an exception: none of the
\* handler's except clauses is taken once calls were made, and every failed
\* call is an error entry of relay_results.
C8_FailuresContained ==
    /\ branch \notin {"timeout", "request_error"}
    /\ branch = "internal" => ~Dispatched
    /\ (Responded /\ Dispatched) =>
          /\ branch = "ok"
          /\ \A j \in Dests :
                tasks[j].result.kind = "exception" =>
                    /\ response.relay_results[j].status = "error"
                    /\ response.relay_results[j].error = tasks[j].result.msg

C8_Witness ==
    /\ Responded /\ branch = "ok"
    /\ \E i, j \in Dests :
          /\ tasks[i].result = TimeoutExc
          /\ tasks[j].result.kind = "exception"
          /\ tasks[j].result.cls = "ConnectError"

\* C9: every POST that reached the handler is eventually answered, each of
\* its calls settling by a reply, a transport failure or its timeout.
C9_EveryPostAnswered == (pc = "received") ~> (pc = "responded")

C9_Witness ==
    /\ Responded
    /\ \A j \in Dests : RELAY_URLS[j] # "" => dest[j].kind = "silent"
    /\ AllDone

\* C10: for every POST, each destination is sent exactly one call and has
\* exactly one entry in relay_results.
C10_ExactlyOneAttempt ==
    Responded =>
        \A j \in Dests :
            /\ attempts[j] = 1
            /\ HasResults
            /\ Cardinality({i \in 1..Len(response.relay_results) :
                               response.relay_results[i].url_index = j}) = 1

\* Lemma: a request that was dispatched is answered only after all N calls
\* have settled, with N entries, each destination called once.
DispatchedRequestsComplete ==
    (Responded /\ Dispatched) =>
        /\ AllDone
        /\ HasResults /\ Len(response.relay_results) = N
        /\ \A j \in Dests : attempts[j] = 1

\* C11: a call that got a reply is recorded as a success whatever the status
\* code of the reply (2xx, 4xx or 5xx), with the code the destination gave
\* as its status_code.
C11_AnyReplyIsSuccess ==
    (Responded /\ HasResults) =>
        \A j \in Dests :
            dest[j].kind = "reply" =>
                /\ response.relay_results[j].status = "success"
                /\ response.relay_results[j].status_code = dest[j].code
                /\ dest[j].code \in Codes

C11_Witness ==
    /\ Responded /\ HasResults
    /\ dest[1] = [kind |-> "reply", code |-> 500]
    /\ dest[2] = [kind |-> "reply", code |-> 404]
    /\ response.relay_results[1].status = "success"
    /\ response.relay_results[1].status_code = 500
    /\ response.relay_results[2].status = "success"
    /\ response.relay_results[2].status_code = 404

\* C15: relay_data is built whatever headers are absent: an absent event
\* header gives "unknown", an absent signature or delivery header gives the
\* empty string, a present header gives its value; the event and delivery_id
\* of the response are those of relay_data.
C15_AbsentHeadersDefaulted ==
    (pc = "gathering" \/ (Responded /\ HasResults)) =>
        LET h == request.headers
            e == relay_data.headers
        IN /\ e.event = (IF "x-drchrono-event" \in DOMAIN h
                          THEN h["x-drchrono-event"] ELSE "unknown")
           /\ e.signature = (IF "x-drchrono-signature" \in DOMAIN h
                              THEN h["x-drchrono-signature"] ELSE "")
           /\ e.delivery = (IF "x-drchrono-delivery" \in DOMAIN h
                             THEN h["x-drchrono-delivery"] ELSE "")
           /\ Responded => /\ response.event = e.event
                            /\ response.delivery_id = e.delivery

C15_Witness ==
    /\ Responded /\ HasResults
    /\ DOMAIN request.headers = {}
    /\ relay_data.headers.signature = ""
    /\ response.event = "unknown"
    /\ response.delivery_id = ""

\* C16: every POST is dispatched to all the entries of RELAY_URLS, configured
\* or not: each of them, a placeholder or an empty value included, is called
\* and has its entry in relay_results.
C16_EveryPostDispatchedToAll ==
    Responded =>
        \A j \in Dests :
            /\ dest[j] # Unsent
            /\ tasks[j].state = "done"
            /\ HasResults
            /\ response.relay_results[j].url = RELAY_URLS[j]

\* C17: an entry of relay_results is either a success with a status_code and
\* no error field, or an error with an error field and no status_code; every
\* settled call has an entry of one of the two shapes.
C17_EntryShapes ==
    (Responded /\ HasResults) =>
        \A i \in Dests :
            /\ tasks[i].state = "done"
            /\ i \in DOMAIN response.relay_results
            /\ LET e == response.relay_results[i] IN
                \/ /\ e.status = "success"
                   /\ DOMAIN e = {"url_index", "url", "status", "status_code"}
                \/ /\ e.status = "error"
                   /\ DOMAIN e = {"url_index", "url", "status", "error"}

C17_Witness ==
    /\ Responded /\ HasResults
    /\ \E i, j \in Dests :
          /\ response.relay_results[i].status = "success"
          /\ "error" \notin DOMAIN response.relay_results[i]
          /\ response.relay_results[j].status = "error"
          /\ "status_code" \notin DOMAIN response.relay_results[j]

\* The HMAC-SHA256 hex digests of the messages of Msgs keyed by the secrets
\* of Secrets, as an independent implementation (RFC 2104, FIPS 180-4) gives
\* them.
ReferenceDigest(secret, msg) ==
    CASE secret = SecretPlaceholder ->
            (CASE msg = MsgPing ->
                    "2d1bdd291a1963a8a70001b01c5082231cea91b644cb945ecdfe553ee88b88e4"
               [] msg = MsgEmpty ->
                    "6267faed6f6a82ebf59cd852455f26c87eeba2b4b8155b205926d44efcb617d7"
               [] msg = MsgNonAscii ->
                    "e2c37146d10cf6a7fe9b35d7f152ba398633b876c673aa8dffd606b554c48075"
               [] OTHER ->
                    "dd9609ffc651352404ad141b5d13739f7736755f8cfbaf7933bc7cfce1583396")
      [] secret = "s3cr3t" ->
            (CASE msg = MsgPing ->
                    "bd17757e83820532e64a24f25fd211310d3f2e5527c6546e2ff44786fd17d7b1"
               [] msg = MsgEmpty ->
                    "3c81cc9496e1c25250f6ccb85f697c1bb623e3480d6538ad8cb6a6648142777d"
               [] msg = MsgNonAscii ->
                    "c2fea60eb9edc46419eae1f7eb9505bf9a1d1c7de11108a1cb7743365a025be8"
               [] OTHER ->
                    "d5d8e39587af88714297ad585fb7a5c6d7b88dc0171055e5551ecbcc2e2bb587")
      [] secret = "" ->
            (CASE msg = MsgPing ->
                    "8c0748640709e5429ac62bdc0e6cd92427adbc41b0dd2b5e67146af0623aa3c3"
               [] msg = MsgEmpty ->
                    "b613679a0814d9ec772f95d778c35fc5ff1697c493715653c6c712144292c5ad"
               [] msg = MsgNonAscii ->
                    "f91302307f03f44ff9a7e3b01f4293110a666433cfa773c4c3c778bb96e21ebd"
               [] OTHER ->
                    "aad37cfaabab66e3552aa1c95f01b78f6d5e125492e087ba2e70761fb63f35e3")
      [] OTHER ->
            (CASE msg = MsgPing ->
                    "ed67b4c4f0076581e94ad93b0c33f922f388d226108a5a408141b82b4e320e61"
               [] msg = MsgEmpty ->
                    "d15d4f22a7a5993c5f7674e0cf564d572ec94e748e5d512724916adf257cfaca"
               [] msg = MsgNonAscii ->
                    "6097dcb97bb3431ffc2ac8e51851927a30ec7769568fce5f25f9d84a6fbeda4e"
               [] OTHER ->
                    "cc9c79fe059a0c568063faac7bd45362c959546d3f375b53a642eec1790f183b")

\* The answer of a GET /webhook is the reference digest of its msg under the
\* secret, and the same as the previous answer to the same msg.
VerificationAnswer ==
    verification.pc = "responded" =>
        /\ verification.response.http_status = 200
        /\ verification.response.secret_token =
              ReferenceDigest(WEBHOOK_SECRET_TOKEN, verification.msg)
        /\ (last_verification.seen /\ last_verification.msg = verification.msg) =>
              verification.response.secret_token = last_verification.secret_token

\* C12: for a fixed secret, GET /webhook answers the HMAC-SHA256 hex digest
\* of msg keyed by the secret, the same digest each time the same msg is
\* asked, and no step of it changes the configuration or any other state
\* than its own answer.
C12_VerificationDeterministic ==
    /\ []VerificationAnswer
    /\ [][UNCHANGED <<RELAY_URLS, WEBHOOK_SECRET_TOKEN, status_response, handlers,
                      pc, request, relay_data, tasks, dest, elapsed, attempts,
                      completed, branch, response>>]_vars

C12_Witness ==
    /\ verification.pc = "responded"
    /\ WEBHOOK_SECRET_TOKEN = "s3cr3t"
    /\ verification.msg = MsgPing
    /\ last_verification.seen
    /\ last_verification.msg = MsgPing
    /\ verification.response.secret_token =
          "bd17757e83820532e64a24f25fd211310d3f2e5527c6546e2ff44786fd17d7b1"

\* C13, as the claim words it: configured is true exactly when the value
\* differs from its placeholder.
C13_ConfiguredIffNotPlaceholder ==
    status_response # NoResponse =>
        /\ status_response.webhook_secret_configured
              = (WEBHOOK_SECRET_TOKEN # SecretPlaceholder)
        /\ \A k \in Dests :
              status_response.relay_urls[k].configured
                  = (RELAY_URLS[k] # PlaceholderUrl(k))

\* The report of GET /webhook/status, field by field, from the configuration.
StatusAnswer ==
    status_response # NoResponse =>
        /\ status_response.webhook_secret_configured
              = (WEBHOOK_SECRET_TOKEN \notin {"", SecretPlaceholder})
        /\ \A k \in Dests :
              /\ status_response.relay_urls[k].configured
                    = (RELAY_URLS[k] \notin {"", PlaceholderUrl(k)})
              /\ status_response.relay_urls[k].url = RELAY_URLS[k]
        /\ status_response.relay_timeout = RELAY_TIMEOUT
        /\ (/\ RELAY_URLS[1] = PlaceholderUrl(1)
            /\ RELAY_URLS[2] = "https://relay-2.example/hook"
            /\ RELAY_URLS[3] = PlaceholderUrl(3)) =>
              {k \in Dests : status_response.relay_urls[k].configured} = {2}

\* C13: GET /webhook/status reports, for the secret and for each URL on its
\* own, configured = TRUE exactly when the value is not empty and differs
\* from its placeholder; with only destination 2 overridden only url_2 is
\* configured; the report is a function of the configuration, which no step
\* of the endpoint changes.
C13_ConfiguredIffSetAndNotPlaceholder ==
    /\ []StatusAnswer
    /\ [][UNCHANGED <<RELAY_URLS, WEBHOOK_SECRET_TOKEN, verification,
                      last_verification, handlers, pc, request, relay_data,
                      tasks, dest, elapsed, attempts, completed, branch,
                      response>>]_vars

C13_Witness ==
    /\ status_response # NoResponse
    /\ RELAY_URLS = <<PlaceholderUrl(1), "https://relay-2.example/hook", "">>
    /\ WEBHOOK_SECRET_TOKEN = SecretPlaceholder
    /\ ~status_response.webhook_secret_configured
    /\ ~status_response.relay_urls[1].configured
    /\ status_response.relay_urls[2].configured
    /\ ~status_response.relay_urls[3].configured

\* Lemma: a request that is dispatched is dispatched to every entry of
\* RELAY_URLS, whatever the status report says of it.
DispatchIgnoresConfigured ==
    (Responded /\ Dispatched) =>
        \A j \in Dests :
            /\ attempts[j] = 1
            /\ dest[j] # Unsent
            /\ response.relay_results[j].url = RELAY_URLS[j]
            /\ ~Configured(RELAY_URLS[j], PlaceholderUrl(j)) =>
                  response.relay_results[j].status \in {"success", "error"}

\* The response of handler h tells the results of h's own calls and the
\* headers of h's own request.
OwnResults(h) ==
    LET r == handlers[h].response IN
    (handlers[h].pc = "responded" /\ "relay_results" \in DOMAIN r) =>
        /\ Len(r.relay_results) = N
        /\ \A i \in Dests :
              /\ r.relay_results[i].url_index = i
              /\ handlers[h].tasks[i].state = "done"
              /\ Detail(r.relay_results[i]) =
                    (IF handlers[h].tasks[i].result.kind = "response"
                     THEN <<"success", handlers[h].tasks[i].result.status_code>>
                     ELSE <<"error", handlers[h].tasks[i].result.msg>>)
        /\ r.event = Get(handlers[h].request.headers, "x-drchrono-event", "unknown")
        /\ r.delivery_id = Get(handlers[h].request.headers, "x-drchrono-delivery", "")

\* C14: with several POSTs in progress at once, the relay_results of each
\* response are the outcomes of that request's own N calls, and no step of a
\* handler changes the list of destinations or the secret (the timeout is a
\* constant of the module).
C14_NoCrossRequestState ==
    /\ [](\A h \in Handlers : OwnResults(h))
    /\ [][UNCHANGED <<RELAY_URLS, WEBHOOK_SECRET_TOKEN>>]_vars

C14_Witness ==
    /\ handlers["b"].pc = "responded"
    /\ handlers["a"].pc = "gathering"
    /\ handlers["a"].tasks[1] = [state |-> "done", result |-> TimeoutExc]
    /\ handlers["a"].tasks[2].state = "inflight"
    /\ handlers["b"].tasks[1].result = Response(200)
    /\ handlers["b"].response.relay_results[1].status = "success"
    /\ handlers["b"].response.event = "unknown"
    /\ handlers["a"].relay_data.headers.event = "appointments"

=============================================================================
